---- MODULE Spec2Model ----
(***************************************************************************)
(* Model of the audio feature pipeline (AudioProcessor.run) and of the     *)
(* beat / pulse tracker (KaleidoscopeEngine.detect_beat / update_pulse) of *)
(* the kaleidoscope visualizer.                                            *)
(*                                                                         *)
(* Numbers.  Python floats are modelled in fixed point:                    *)
(*   - pulse values in units of 1/One (One stands for 1.0);                *)
(*   - rates set from the sliders as integer percent (slider value; the    *)
(*     code divides by 100 when it applies them);                          *)
(*   - bass energies as non-negative integers (the beat test is scale      *)
(*     invariant, it is evaluated exactly as a comparison of rationals).   *)
(* Every product is rounded to the nearest unit (RoundDiv), as a float     *)
(* operation rounds to the nearest representable value.                    *)
(***************************************************************************)
EXTENDS Integers, Sequences, FiniteSets, TLC

VARIABLES
    \* ---- KaleidoscopeEngine ----
    bands,          \* engine.bands: <<bass, mids, highs>>
    beat_history,   \* engine.beat_history
    prev_bass,      \* engine.prev_bass
    is_beat,        \* engine.is_beat
    beat_cooldown,  \* engine.beat_cooldown
    current_pulse,  \* engine.current_pulse (units of 1/One)
    target_pulse,   \* engine.target_pulse  (units of 1/One)
    enable_pulse,   \* engine.enable_pulse
    pulse_strength, \* engine.pulse_strength (percent)
    pulse_attack,   \* engine.pulse_attack   (percent)
    pulse_decay,    \* engine.pulse_decay    (percent)
    \* ---- bookkeeping of the bass-sequence driver ----
    base,           \* the level the bass sequence rests at
    spikes,         \* frames so far whose bass differed from base
    frames,         \* updates so far (saturates at MaxFrames)
    since_beat,     \* updates since the last reported beat (-1: none yet)
    beat_gap,       \* distance in updates between the last two beats (0: fewer than two)
    \* ---- AudioProcessor ----
    running,        \* self.running
    sensitivity,    \* self.sensitivity (percent)
    smoothing,      \* self.smoothing   (percent)
    fft_data,       \* self.fft_data
    prev_fft,       \* self.prev_fft
    rms_volume,     \* self.rms_volume
    prev_volume,    \* self.prev_volume
    last_raw_audio, \* self.last_raw_audio
    storage,        \* which array object each array attribute refers to
    \* ---- the capture thread inside run() ----
    cap_pc,         \* position of the capture thread
    stream,         \* the PyAudio input stream: "none", "open", "closed"
    data,           \* the buffer of the cycle in progress
    used,           \* the values of sensitivity / smoothing read in this cycle
    \* ---- the UI thread ----
    queue,          \* audio_data emissions posted to the UI thread, oldest first
    ui_pc,          \* position of the UI thread
    display,        \* FrequencyDisplayWidget.spectrum_data / bands / volume
    \* ---- bookkeeping ----
    cycles,         \* buffers read so far
    emitted,        \* frames emitted so far
    delivered,      \* number of the frame process_audio ran for last
    applies,        \* apply_settings calls so far
    late_reads      \* device reads that ended after stop() cleared running

engineVars == <<bands, beat_history, prev_bass, is_beat, beat_cooldown,
                current_pulse, target_pulse, enable_pulse, pulse_strength,
                pulse_attack, pulse_decay>>
driverVars == <<base, spikes, frames, since_beat, beat_gap>>
audioVars == <<running, sensitivity, smoothing, fft_data, prev_fft,
               rms_volume, prev_volume, last_raw_audio, storage>>
capVars == <<cap_pc, stream, data, used>>
uiVars == <<ui_pc, display>>
countVars == <<cycles, emitted, delivered, applies, late_reads>>
appVars == <<audioVars, capVars, queue, uiVars, countVars>>
vars == <<engineVars, driverVars, appVars>>

----------------------------------------------------------------------------
(* Bounds of the model *)

MaxSpikes == 2
MaxFrames == 33
GapCap == 12

PulseFrames == 17

BassValues == {0, 10, 16}
BaseLevels == {0, 10}

MaxCycles == 2
SteadyCycles == 3
ZeroCycles == 7
MaxApplies == 1
LateCap == 3

\* buffers the device read returns: empty, silent, quiet, one whose
\* squares leave the int16 range, one clipped at full amplitude, and a
\* shorter one
Buffers == { <<>>, <<0, 0>>, <<100, 50>>, <<182, 0>>, <<32767, 32767>>,
             <<100>> }
ControlBuffers == { <<>>, <<0, 0>>, <<100, 50>> }
\* a longer buffer, zero but for its first sample and the one half way:
\* its transform has 103 bins, 150 at the even ones and 50 at the odd ones
WideBuffer == [i \in 1..204 |-> IF i = 1 THEN 100 ELSE IF i = 103 THEN 50 ELSE 0]
SteadyBuffers == Buffers \cup {WideBuffer}
\* slider positions the user moves to (the sliders start at 100 and 30)
SensitivityValues == {200}
SmoothingValues == {0, 30}
\* pulse strength, and attack / decay rates, the engine is given (percent)
StrengthValues == {0, 50, 100, 200}
RateValues == {10, 100}

----------------------------------------------------------------------------
(* Arithmetic helpers *)

One == 10000

\* a / b rounded to the nearest integer (b > 0), halves upwards
RoundDiv(a, b) == (a + b \div 2) \div b

Abs(x) == IF x < 0 THEN -x ELSE x
Min(a, b) == IF a < b THEN a ELSE b

RECURSIVE SumSeq(_)
SumSeq(s) == IF s = <<>> THEN 0 ELSE Head(s) + SumSeq(Tail(s))

----------------------------------------------------------------------------
(* KaleidoscopeEngine.detect_beat *)

HistoryCap == 30
WarmUp == 5
CooldownFrames == 10
SnapBand == One \div 20

PushHistory_EvictNewest(h, bass) ==
    LET h1 == Append(h, bass)
    IN IF Len(h1) > HistoryCap THEN SubSeq(h1, 1, HistoryCap) ELSE h1

\* beat_history.append(bass); pop(0) when longer than 30
PushHistory(h, bass) ==
    LET h1 == Append(h, bass)
    IN IF Len(h1) > HistoryCap THEN Tail(h1) ELSE h1

AboveAverage_Factor16(bass, h) == 10 * bass * Len(h) > 16 * SumSeq(h)

\* bass > avg_bass * 1.5 with avg_bass = sum(h) / len(h)
AboveAverage(bass, h) == 2 * bass * Len(h) > 3 * SumSeq(h)

Rising_Ignored(bass, prev) == TRUE

\* bass > self.prev_bass
Rising(bass, prev) == bass > prev

CooldownOver_Ignored(cd) == TRUE

\* self.beat_cooldown <= 0
CooldownOver(cd) == cd <= 0

BeatCondition_NoThreshold(bass, h, prev, cd) ==
    Rising(bass, prev) /\ CooldownOver(cd)

\* the condition of line 211
BeatCondition(bass, h, prev, cd) ==
    AboveAverage(bass, h) /\ Rising(bass, prev) /\ CooldownOver(cd)

\* bass / avg_bass in units of 1/One
BassRatio(bass, h) == RoundDiv(One * bass * Len(h), SumSeq(h))

PulseTarget_Unclamped(bass, h, strength) ==
    One + RoundDiv((BassRatio(bass, h) - One) * strength, 100)

\* min(2.0, 1.0 + (bass / avg_bass - 1) * self.pulse_strength)
PulseTarget(bass, h, strength) ==
    Min(2 * One, One + RoundDiv((BassRatio(bass, h) - One) * strength, 100))

TickCooldown_StopsAtOne(cd) == IF cd > 1 THEN cd - 1 ELSE cd

\* if self.beat_cooldown > 0: self.beat_cooldown -= 1
TickCooldown(cd) == IF cd > 0 THEN cd - 1 ELSE cd

Warmed_AtFive(h) == Len(h) >= WarmUp

\* if len(self.beat_history) > 5
Warmed(h) == Len(h) > WarmUp

NextPrevBass_WhenTested(bass, prev, tested) == IF tested THEN bass ELSE prev

\* self.prev_bass = bass, the last statement of detect_beat, outside the
\* history test
NextPrevBass(bass, prev, tested) == bass

DetectBeat_TargetAlways(bass, h0, prev, cd, beat0, target0, pulseOn, strength) ==
    LET h      == PushHistory(h0, bass)
        tested == Warmed(h)
        beat   == tested /\ BeatCondition(bass, h, prev, cd)
    IN [ history  |-> h,
         is_beat  |-> IF tested THEN beat ELSE beat0,
         cooldown |-> TickCooldown(IF beat THEN CooldownFrames ELSE cd),
         target   |-> IF beat THEN PulseTarget(bass, h, strength)
                              ELSE target0,
         prev     |-> NextPrevBass(bass, prev, tested) ]

\* the state detect_beat leaves, as a record
DetectBeat(bass, h0, prev, cd, beat0, target0, pulseOn, strength) ==
    LET h      == PushHistory(h0, bass)
        tested == Warmed(h)
        beat   == tested /\ BeatCondition(bass, h, prev, cd)
    IN [ history  |-> h,
         is_beat  |-> IF tested THEN beat ELSE beat0,
         cooldown |-> TickCooldown(IF beat THEN CooldownFrames ELSE cd),
         target   |-> IF beat /\ pulseOn THEN PulseTarget(bass, h, strength)
                                         ELSE target0,
         prev     |-> NextPrevBass(bass, prev, tested) ]

----------------------------------------------------------------------------
(* KaleidoscopeEngine.update_pulse *)

PulseStep_HalfAttack(cur, target, attack, decay) ==
    IF cur < target
    THEN cur + RoundDiv((target - cur) * attack, 200)
    ELSE cur + RoundDiv((One - cur) * decay, 100)

\* attack / decay step of lines 236-241
PulseStep(cur, target, attack, decay) ==
    IF cur < target
    THEN cur + RoundDiv((target - cur) * attack, 100)
    ELSE cur + RoundDiv((One - cur) * decay, 100)

NearRest_HalfBand(cur) == Abs(cur - One) < SnapBand \div 2

\* abs(self.current_pulse - 1.0) < 0.05
NearRest(cur) == Abs(cur - One) < SnapBand

\* the state update_pulse leaves, as a record
UpdatePulse(cur, target, pulseOn, attack, decay) ==
    IF ~pulseOn
    THEN [current |-> One, target |-> target]
    ELSE LET c == PulseStep(cur, target, attack, decay)
         IN IF NearRest(c) THEN [current |-> One, target |-> One]
                           ELSE [current |-> c, target |-> target]

----------------------------------------------------------------------------
(* KaleidoscopeEngine.update: store the frame, detect_beat, update_pulse  *)
(* (d and p are the results of the two calls, each computed once)          *)

EngineUpdate(newBands) ==
    \E d \in {DetectBeat(newBands[1], beat_history, prev_bass, beat_cooldown,
                        is_beat, target_pulse, enable_pulse, pulse_strength)} :
    \E p \in {UpdatePulse(current_pulse, d.target, enable_pulse,
                         pulse_attack, pulse_decay)} :
       /\ bands' = newBands
       /\ beat_history' = d.history
       /\ is_beat' = d.is_beat
       /\ beat_cooldown' = d.cooldown
       /\ prev_bass' = d.prev
       /\ current_pulse' = p.current
       /\ target_pulse' = p.target
       /\ UNCHANGED <<enable_pulse, pulse_strength, pulse_attack, pulse_decay>>

\* KaleidoscopeEngine.__init__
EngineInit ==
    /\ bands = <<0, 0, 0>>
    /\ beat_history = <<>>
    /\ prev_bass = 0
    /\ is_beat = FALSE
    /\ beat_cooldown = 0
    /\ current_pulse = One
    /\ target_pulse = One
    /\ enable_pulse = TRUE
    /\ pulse_strength = 100
    /\ pulse_attack = 10
    /\ pulse_decay = 20

----------------------------------------------------------------------------
(* AudioProcessor: numbers                                                 *)
(* Volumes and spectrum magnitudes are kept in units of 1/32768 (one step  *)
(* of an int16 sample); sensitivity and smoothing as integer percent.  A   *)
(* float that is not a number is the value NaN.                            *)

NaN == -2000000000

IsFinite(x) == x # NaN

\* wrap-around of a 16-bit signed integer
Wrap16(x) == ((x + 32768) % 65536) - 32768

\* one element of data**2: numpy keeps the int16 type of the array
Square16(x) == Wrap16(x * x)

\* the sum of s[lo..hi], by halves
RECURSIVE SumRange(_, _, _)
SumRange(s, lo, hi) ==
    IF lo > hi THEN 0
    ELSE IF lo = hi THEN s[lo]
    ELSE LET mid == (lo + hi) \div 2
         IN SumRange(s, lo, mid) + SumRange(s, mid + 1, hi)

\* np.mean(data**2) sums the wrapped squares in float64
SumSquares16(s) == SumRange([i \in 1..Len(s) |-> Square16(s[i])], 1, Len(s))

RECURSIVE SqrtSearch(_, _, _)
SqrtSearch(n, lo, hi) ==
    IF lo >= hi THEN lo
    ELSE LET mid == (lo + hi + 1) \div 2
         IN IF mid * mid <= n THEN SqrtSearch(n, mid, hi)
                              ELSE SqrtSearch(n, lo, mid - 1)

\* np.sqrt: NaN for a negative argument, else the nearest integer root
Sqrt(x) ==
    IF x = NaN \/ x < 0 THEN NaN
    ELSE LET r == SqrtSearch(x, 0, 46340)
         IN IF x - r * r > r THEN r + 1 ELSE r

\* np.any(data)
AnyNonZero(s) == \E i \in 1..Len(s) : s[i] # 0

\* np.sqrt(np.mean(data**2)) / 32768.0 * self.sensitivity   (line 54)
InstantVolume(buf, sens) ==
    LET r == Sqrt(RoundDiv(SumSquares16(buf), Len(buf)))
    IN IF r = NaN THEN NaN ELSE RoundDiv(r * sens, 100)

\* self.prev_volume * self.smoothing + self.rms_volume * (1 - self.smoothing)
BlendVolume(prev, inst, sm1, sm2) ==
    IF prev = NaN \/ inst = NaN THEN NaN
    ELSE RoundDiv(prev * sm1 + inst * (100 - sm2), 100)

\* the buffer is zero but for its first sample and the one half way
ImpulsePair(buf) ==
    /\ Len(buf) % 2 = 0
    /\ \A i \in 1..Len(buf) : i \in {1, Len(buf) \div 2 + 1} \/ buf[i] = 0

\* np.abs(np.fft.rfft(data / 32768.0)) for the buffers of the model: the
\* transform of a + b at distance n/2 is a + b at even bins, a - b at odd
Rfft(buf) ==
    CASE Len(buf) > 4 /\ ImpulsePair(buf) ->
            [k \in 1..(Len(buf) \div 2 + 1) |->
                Abs(buf[1] + (IF k % 2 = 1 THEN 1 ELSE -1)
                                 * buf[Len(buf) \div 2 + 1])]
      [] Len(buf) = 1 -> << Abs(buf[1]) >>
      [] Len(buf) = 2 -> << Abs(buf[1] + buf[2]), Abs(buf[1] - buf[2]) >>
      [] Len(buf) = 3 ->
            << Abs(buf[1] + buf[2] + buf[3]),
               Sqrt(buf[1] * buf[1] + buf[2] * buf[2] + buf[3] * buf[3]
                    - buf[1] * buf[2] - buf[2] * buf[3] - buf[1] * buf[3]) >>
      [] Len(buf) = 4 ->
            << Abs(buf[1] + buf[2] + buf[3] + buf[4]),
               Sqrt((buf[1] - buf[3]) * (buf[1] - buf[3])
                    + (buf[2] - buf[4]) * (buf[2] - buf[4])),
               Abs(buf[1] - buf[2] + buf[3] - buf[4]) >>

\* np.zeros(n)
Zeros(n) == [i \in 1..n |-> 0]

\* one element of prev_fft * smoothing + fft * (1 - smoothing) * sensitivity
BlendBin(prev, inst, sm1, sm2, sens) ==
    IF prev = NaN \/ inst = NaN THEN NaN
    ELSE RoundDiv(prev * sm1 * 100 + inst * (100 - sm2) * sens, 10000)

BlendSpectrum_ResizeShorter(prev, fft, sm1, sm2, sens) ==
    LET p == IF Len(fft) > Len(prev) THEN Zeros(Len(fft)) ELSE prev
    IN [i \in 1..Len(fft) |-> BlendBin(p[i], fft[i], sm1, sm2, sens)]

\* lines 66-69: resize prev_fft on a length mismatch, then blend
BlendSpectrum(prev, fft, sm1, sm2, sens) ==
    LET p == IF Len(fft) # Len(prev) THEN Zeros(Len(fft)) ELSE prev
    IN [i \in 1..Len(fft) |-> BlendBin(p[i], fft[i], sm1, sm2, sens)]

\* np.nan_to_num on one element
NanToNum(x) == IF x = NaN THEN 0 ELSE x

NanToNumSeq(s) == [i \in 1..Len(s) |-> NanToNum(s[i])]

Slice_Inclusive(s, lo, hi) == SubSeq(s, lo + 1, Min(hi + 1, Len(s)))

\* s[lo:hi] of Python (0-based, hi exclusive, clamped to the length)
Slice(s, lo, hi) == SubSeq(s, lo + 1, Min(hi, Len(s)))

\* np.mean: NaN for an empty slice
Mean(s) ==
    IF s = <<>> THEN NaN
    ELSE IF \E i \in 1..Len(s) : s[i] = NaN THEN NaN
    ELSE RoundDiv(SumRange(s, 1, Len(s)), Len(s))

BassEdge == 20
MidEdge == 100

Bands_WithDC(fftData) ==
    << NanToNum(Mean(Slice(fftData, 0, BassEdge))),
       NanToNum(Mean(Slice(fftData, BassEdge, MidEdge))),
       NanToNum(Mean(Slice(fftData, MidEdge, Len(fftData)))) >>

\* lines 76-78 and 85
Bands(fftData) ==
    << NanToNum(Mean(Slice(fftData, 1, BassEdge))),
       NanToNum(Mean(Slice(fftData, BassEdge, MidEdge))),
       NanToNum(Mean(Slice(fftData, MidEdge, Len(fftData)))) >>

Spectrum_FromDC(fftData) == NanToNumSeq(Slice(fftData, 0, MidEdge))

\* lines 81 and 84
Spectrum(fftData) == NanToNumSeq(Slice(fftData, 1, MidEdge))

EmitVolume_Unchecked(v) == v

\* 0.0 if np.isnan(self.rms_volume) else self.rms_volume
EmitVolume(v) == IF v = NaN THEN 0 ELSE v

\* the array object a statement creates: numpy allocates a new array for
\* the result of an expression, of copy(), zeros() and nan_to_num(); the
\* object is named by the source line and the capture cycle (0: __init__)
Allocated(line, cycle) == [line |-> line, cycle |-> cycle]

SpectrumStorage_View(fftStorage, fresh) == fftStorage

\* line 81 takes a view of self.fft_data, line 84 replaces it by the new
\* array np.nan_to_num returns
SpectrumStorage(fftStorage, fresh) == fresh

\* the arguments of self.audio_data.emit (line 89); n numbers the
\* emissions, ids names the array objects handed over
MakeFrame(fftData, vol, raw, n, ids) ==
    [ spectrum |-> Spectrum(fftData),
      bands    |-> Bands(fftData),
      volume   |-> EmitVolume(vol),
      raw      |-> raw,
      n        |-> n,
      ids      |-> ids ]

ChunkSize == 2048

----------------------------------------------------------------------------
(* AudioProcessor.__init__ and the state of the application when the Qt    *)
(* event loop starts: the capture thread has been started (main_window.py  *)
(* line 57), the window has been shown and the engine exists, and nothing  *)
(* has been emitted yet.                                                   *)

AudioInit ==
    /\ running = TRUE
    /\ sensitivity = 100
    /\ smoothing = 30
    /\ fft_data = Zeros((ChunkSize \div 2) + 1)
    /\ prev_fft = Zeros((ChunkSize \div 2) + 1)
    /\ rms_volume = 0
    /\ prev_volume = 0
    /\ last_raw_audio = Zeros(ChunkSize)
    /\ storage = [raw  |-> Allocated(32, 0),
                  fft  |-> Allocated(26, 0),
                  prev |-> Allocated(27, 0)]

\* no parameter read yet in this cycle
NoReads == [sens_vol |-> -1, sm_vol1 |-> -1, sm_vol2 |-> -1,
            sm_fft1 |-> -1, sm_fft2 |-> -1, sens_fft |-> -1]

\* the bass-sequence driver takes no part in the application
DriverIdle ==
    /\ base = 0
    /\ spikes = 0
    /\ frames = 0
    /\ since_beat = -1
    /\ beat_gap = 0

ThreadInit ==
    /\ cap_pc = "open"
    /\ stream = "none"
    /\ data = <<>>
    /\ used = NoReads
    /\ queue = <<>>
    /\ ui_pc = "idle"
    /\ display = [spectrum |-> Zeros(MidEdge), bands |-> Zeros(3), volume |-> 0]
    /\ cycles = 0
    /\ emitted = 0
    /\ delivered = 0
    /\ applies = 0
    /\ late_reads = 0

----------------------------------------------------------------------------
(* AudioProcessor.run, one action per step between two accesses to state   *)
(* shared with the UI thread (running, sensitivity, smoothing, the queue   *)
(* of posted signals).                                                     *)

\* lines 35-40: p.open succeeds
OpenStream ==
    /\ cap_pc = "open"
    /\ stream' = "open"
    /\ cap_pc' = "check"
    /\ UNCHANGED <<audioVars, data, used, queue, uiVars, countVars, engineVars, driverVars>>

\* lines 35-40: p.open raises and the exception leaves run()
OpenFail ==
    /\ cap_pc = "open"
    /\ cap_pc' = "failed"
    /\ UNCHANGED <<audioVars, stream, data, used, queue, uiVars, countVars, engineVars, driverVars>>

LoopCondition_Always(r) == TRUE

\* while self.running
LoopCondition(r) == r

\* line 42
LoopCheck ==
    /\ cap_pc = "check"
    /\ cap_pc' = IF LoopCondition(running) THEN "read" ELSE "close"
    /\ UNCHANGED <<audioVars, stream, data, used, queue, uiVars, countVars, engineVars, driverVars>>

\* lines 45-49: the blocking read returns a buffer out of S
ReadWithin(S, max) ==
    /\ cap_pc = "read"
    /\ cycles < max
    /\ \E buf \in S :
          /\ data' = buf
          /\ last_raw_audio' = IF Len(buf) > 0 THEN buf ELSE last_raw_audio
          /\ storage' = IF Len(buf) > 0
                        THEN [storage EXCEPT !.raw = Allocated(49, cycles + 1)]
                        ELSE storage
    /\ used' = NoReads
    /\ cycles' = cycles + 1
    /\ late_reads' = IF running THEN late_reads ELSE Min(late_reads + 1, LateCap)
    /\ cap_pc' = "volume"
    /\ UNCHANGED <<running, sensitivity, smoothing, fft_data, prev_fft,
                   rms_volume, prev_volume, stream, queue, uiVars,
                   emitted, delivered, applies, engineVars, driverVars>>

ReadFrom(S) == ReadWithin(S, MaxCycles)

ReadBuffer == ReadFrom(Buffers)

\* line 45 raises: control passes to the handler of line 90
ReadError ==
    /\ cap_pc = "read"
    /\ late_reads' = IF running THEN late_reads ELSE Min(late_reads + 1, LateCap)
    /\ cap_pc' = "except"
    /\ UNCHANGED <<audioVars, stream, data, used, queue, uiVars,
                   cycles, emitted, delivered, applies, engineVars, driverVars>>

HandleReadError_LeavesLoop ==
    /\ cap_pc = "except"
    /\ cap_pc' = "close"
    /\ UNCHANGED <<audioVars, stream, data, used, queue, uiVars, countVars,
                   engineVars, driverVars>>

\* lines 90-93 print the error; the loop goes on with its condition
HandleReadError ==
    /\ cap_pc = "except"
    /\ cap_pc' = "check"
    /\ UNCHANGED <<audioVars, stream, data, used, queue, uiVars, countVars,
                   engineVars, driverVars>>

\* lines 53-54 (sensitivity is read), or line 59 for a silent buffer
VolumeInstant ==
    /\ cap_pc = "volume"
    /\ IF Len(data) > 0 /\ AnyNonZero(data)
       THEN /\ rms_volume' = InstantVolume(data, sensitivity)
            /\ used' = [used EXCEPT !.sens_vol = sensitivity]
            /\ cap_pc' = "vol_sm1"
       ELSE /\ rms_volume' = prev_volume
            /\ used' = used
            /\ cap_pc' = IF Len(data) > 0 THEN "fft_sm1" ELSE "check"
    /\ UNCHANGED <<running, sensitivity, smoothing, fft_data, prev_fft,
                   prev_volume, last_raw_audio, storage, stream, data, queue, uiVars,
                   countVars, engineVars, driverVars>>

\* line 55, self.prev_volume * self.smoothing (smoothing is read)
VolumeSmoothFirst ==
    /\ cap_pc = "vol_sm1"
    /\ used' = [used EXCEPT !.sm_vol1 = smoothing]
    /\ cap_pc' = "vol_sm2"
    /\ UNCHANGED <<audioVars, stream, data, queue, uiVars, countVars,
                   engineVars, driverVars>>

\* line 55, self.rms_volume * (1 - self.smoothing) (smoothing is read), line 56
VolumeSmoothSecond ==
    /\ cap_pc = "vol_sm2"
    /\ used' = [used EXCEPT !.sm_vol2 = smoothing]
    /\ rms_volume' = BlendVolume(prev_volume, rms_volume, used.sm_vol1, smoothing)
    /\ prev_volume' = rms_volume'
    /\ cap_pc' = "fft_sm1"
    /\ UNCHANGED <<running, sensitivity, smoothing, fft_data, prev_fft,
                   last_raw_audio, storage, stream, data, queue, uiVars, countVars,
                   engineVars, driverVars>>

\* lines 62-69, self.prev_fft * self.smoothing (smoothing is read)
SpectrumSmoothFirst ==
    /\ cap_pc = "fft_sm1"
    /\ used' = [used EXCEPT !.sm_fft1 = smoothing]
    /\ cap_pc' = "fft_sm2"
    /\ UNCHANGED <<audioVars, stream, data, queue, uiVars, countVars,
                   engineVars, driverVars>>

\* line 69, fft * (1 - self.smoothing) (smoothing is read)
SpectrumSmoothSecond ==
    /\ cap_pc = "fft_sm2"
    /\ used' = [used EXCEPT !.sm_fft2 = smoothing]
    /\ cap_pc' = "fft_sens"
    /\ UNCHANGED <<audioVars, stream, data, queue, uiVars, countVars,
                   engineVars, driverVars>>

PostFrame_SingleSlot(q, f) == << f >>

\* self.audio_data.emit posts the frame to the receiver's thread
PostFrame(q, f) == Append(q, f)

\* line 69, ... * self.sensitivity (sensitivity is read), lines 70-89
SpectrumEmit ==
    /\ cap_pc = "fft_sens"
    /\ used' = [used EXCEPT !.sens_fft = sensitivity]
    /\ LET blended == BlendSpectrum(prev_fft, Rfft(data), used.sm_fft1,
                                    used.sm_fft2, sensitivity)
       IN /\ prev_fft' = blended
          /\ fft_data' = NanToNumSeq(blended)
          /\ queue' = PostFrame(queue,
                  MakeFrame(NanToNumSeq(blended), rms_volume, last_raw_audio,
                            emitted + 1,
                            [spectrum |-> SpectrumStorage(Allocated(73, cycles),
                                                          Allocated(84, cycles)),
                             bands    |-> Allocated(85, cycles),
                             raw      |-> storage.raw]))
    /\ storage' = [storage EXCEPT !.fft = Allocated(73, cycles),
                                  !.prev = Allocated(70, cycles)]
    /\ emitted' = emitted + 1
    /\ cap_pc' = "check"
    /\ UNCHANGED <<running, sensitivity, smoothing, rms_volume, prev_volume,
                   last_raw_audio, stream, data, uiVars, cycles, delivered,
                   applies, late_reads, engineVars, driverVars>>

\* lines 95-97
CloseStream ==
    /\ cap_pc = "close"
    /\ stream' = "closed"
    /\ cap_pc' = "done"
    /\ UNCHANGED <<audioVars, data, used, queue, uiVars, countVars, engineVars, driverVars>>

CaptureStep ==
    \/ OpenStream \/ OpenFail \/ LoopCheck \/ ReadBuffer \/ ReadError
    \/ HandleReadError
    \/ VolumeInstant \/ VolumeSmoothFirst \/ VolumeSmoothSecond
    \/ SpectrumSmoothFirst \/ SpectrumSmoothSecond \/ SpectrumEmit
    \/ CloseStream

----------------------------------------------------------------------------
(* The UI thread: one action per event handler; apply_to_engine is split   *)
(* at its two writes to the audio processor.                               *)

\* ControlPanel.apply_to_engine up to set_sensitivity (lines 574-583); the
\* pulse sliders rest at their defaults
ApplySettings ==
    /\ ui_pc = "idle"
    /\ applies < MaxApplies
    /\ applies' = applies + 1
    /\ enable_pulse' = TRUE
    /\ pulse_strength' = 100
    /\ pulse_attack' = 10
    /\ pulse_decay' = 20
    /\ \E v \in SensitivityValues : sensitivity' = v
    /\ ui_pc' = "apply_smoothing"
    /\ UNCHANGED <<running, smoothing, fft_data, prev_fft, rms_volume,
                   prev_volume, last_raw_audio, storage, capVars, queue, display,
                   cycles, emitted, delivered, late_reads,
                   bands, beat_history, prev_bass, is_beat, beat_cooldown,
                   current_pulse, target_pulse, driverVars>>

ApplySmoothing_ResetsState ==
    /\ ui_pc = "apply_smoothing"
    /\ \E v \in SmoothingValues : smoothing' = v
    /\ prev_volume' = 0
    /\ ui_pc' = "idle"
    /\ UNCHANGED <<running, sensitivity, fft_data, prev_fft, rms_volume,
                   last_raw_audio, storage, capVars, queue, display,
                   countVars, engineVars, driverVars>>

\* ControlPanel.apply_to_engine, set_smoothing (line 584)
ApplySmoothing ==
    /\ ui_pc = "apply_smoothing"
    /\ \E v \in SmoothingValues : smoothing' = v
    /\ ui_pc' = "idle"
    /\ UNCHANGED <<running, sensitivity, fft_data, prev_fft, rms_volume,
                   prev_volume, last_raw_audio, storage, capVars, queue, display,
                   countVars, engineVars, driverVars>>

NextPosted_Latest(q) == q[Len(q)]

\* the posted frame the event loop hands to the slot next
NextPosted(q) == Head(q)

\* MainWindow.process_audio, run by the event loop for a posted frame
DeliverFrame ==
    /\ ui_pc = "idle"
    /\ queue # <<>>
    /\ LET f == NextPosted(queue)
       IN /\ EngineUpdate(f.bands)
          /\ display' = [spectrum |-> f.spectrum, bands |-> f.bands,
                         volume |-> f.volume]
          /\ delivered' = f.n
          /\ queue' = Tail(queue)
    /\ UNCHANGED <<audioVars, capVars, ui_pc, cycles, emitted, applies,
                   late_reads, driverVars>>

\* MainWindow.closeEvent -> AudioProcessor.stop, line 106
CloseEvent ==
    /\ ui_pc = "idle"
    /\ running' = FALSE
    /\ ui_pc' = "waiting"
    /\ UNCHANGED <<sensitivity, smoothing, fft_data, prev_fft, rms_volume,
                   prev_volume, last_raw_audio, storage, capVars, queue, display,
                   countVars, engineVars, driverVars>>

\* QThread.wait returns once run() has ended
ThreadFinished(pc) == pc \in {"done", "failed"}

\* AudioProcessor.stop, line 107, and the rest of closeEvent
StopReturn ==
    /\ ui_pc = "waiting"
    /\ ThreadFinished(cap_pc)
    /\ ui_pc' = "closed"
    /\ UNCHANGED <<audioVars, capVars, queue, display, countVars,
                   engineVars, driverVars>>

UiStep ==
    \/ ApplySettings \/ ApplySmoothing \/ DeliverFrame \/ CloseEvent
    \/ StopReturn

Init == EngineInit /\ AudioInit /\ ThreadInit /\ DriverIdle
Next == CaptureStep \/ UiStep
Spec == Init /\ [][Next]_vars

----------------------------------------------------------------------------
(* The control flow of start-up and shutdown on its own: the settings are  *)
(* left alone and the device returns one buffer of each kind the loop      *)
(* distinguishes (empty, silent, audible).  The capture thread keeps being *)
(* scheduled, every blocking read returns, and QThread.wait returns once   *)
(* run() has ended.                                                        *)

ControlRead == ReadFrom(ControlBuffers)

ControlCapture ==
    \/ OpenStream \/ OpenFail \/ LoopCheck \/ ControlRead \/ ReadError
    \/ HandleReadError
    \/ VolumeInstant \/ VolumeSmoothFirst \/ VolumeSmoothSecond
    \/ SpectrumSmoothFirst \/ SpectrumSmoothSecond \/ SpectrumEmit
    \/ CloseStream

ControlUi == DeliverFrame \/ CloseEvent \/ StopReturn

ControlNext == ControlCapture \/ ControlUi
SpecControl == Init /\ [][ControlNext]_vars
SpecControlFair ==
    SpecControl /\ WF_vars(ControlCapture) /\ WF_vars(StopReturn)

----------------------------------------------------------------------------
(* The capture loop under settings that stay as they are once the stream   *)
(* is open: the user moves the sliders before that or not at all, no frame *)
(* is taken off the queue, and the device also returns the longer buffer.  *)

SteadyApply == cap_pc = "open" /\ ApplySettings
SteadySmoothing == cap_pc = "open" /\ ApplySmoothing
SteadyRead == ReadWithin(SteadyBuffers, SteadyCycles)

SteadyNext ==
    \/ SteadyApply \/ SteadySmoothing
    \/ OpenStream \/ LoopCheck \/ SteadyRead \/ ReadError \/ HandleReadError
    \/ VolumeInstant \/ VolumeSmoothFirst \/ VolumeSmoothSecond
    \/ SpectrumSmoothFirst \/ SpectrumSmoothSecond \/ SpectrumEmit

SpecSteady == Init /\ [][SteadyNext]_vars

----------------------------------------------------------------------------
(* The application on silence: every buffer the device returns is a full   *)
(* chunk of zeros, and the UI thread runs process_audio for the frames.    *)

ZeroBuffers == { Zeros(ChunkSize) }
ZeroRead == ReadWithin(ZeroBuffers, ZeroCycles)

ZeroCapture ==
    \/ OpenStream \/ LoopCheck \/ ZeroRead \/ ReadError \/ HandleReadError
    \/ VolumeInstant \/ SpectrumSmoothFirst \/ SpectrumSmoothSecond
    \/ SpectrumEmit

ZeroNext == ZeroCapture \/ DeliverFrame
SpecZero == Init /\ [][ZeroNext]_vars

----------------------------------------------------------------------------
(* The tracker driven by a bass sequence: the sequence rests at `base` and *)
(* leaves it in at most MaxSpikes frames.                                  *)

DriverInit ==
    /\ base \in BaseLevels
    /\ spikes = 0
    /\ frames = 0
    /\ since_beat = -1
    /\ beat_gap = 0

Track(bass) ==
    /\ frames' = Min(frames + 1, MaxFrames)
    /\ spikes' = IF bass = base THEN spikes ELSE spikes + 1
    /\ since_beat' = IF is_beat' THEN 0
                     ELSE IF since_beat < 0 THEN since_beat
                     ELSE Min(since_beat + 1, GapCap)
    /\ beat_gap' = IF is_beat' /\ since_beat >= 0 THEN since_beat + 1
                   ELSE beat_gap
    /\ UNCHANGED base

\* one call of engine.update with bass energy b
Frame(b) ==
    /\ EngineUpdate(<<b, 0, 0>>)
    /\ Track(b)
    /\ UNCHANGED appVars

\* a frame at the resting level
FlatFrame ==
    /\ frames < MaxFrames
    /\ Frame(base)

\* a frame off the resting level
SpikeFrame ==
    /\ frames < MaxFrames
    /\ spikes < MaxSpikes
    /\ \E b \in BassValues \ {base} : Frame(b)

\* the engine on its own: no audio processor, no capture thread, no window
NoApplication ==
    /\ running = FALSE
    /\ sensitivity = 100
    /\ smoothing = 30
    /\ fft_data = <<>>
    /\ prev_fft = <<>>
    /\ rms_volume = 0
    /\ prev_volume = 0
    /\ last_raw_audio = <<>>
    /\ storage = [raw  |-> Allocated(32, 0),
                  fft  |-> Allocated(26, 0),
                  prev |-> Allocated(27, 0)]
    /\ cap_pc = "none"
    /\ stream = "none"
    /\ data = <<>>
    /\ used = NoReads
    /\ queue = <<>>
    /\ ui_pc = "none"
    /\ display = [spectrum |-> <<>>, bands |-> Zeros(3), volume |-> 0]
    /\ cycles = 0
    /\ emitted = 0
    /\ delivered = 0
    /\ applies = 0
    /\ late_reads = 0

BeatInit == EngineInit /\ DriverInit /\ NoApplication
BeatNext == FlatFrame \/ SpikeFrame
SpecBeat == BeatInit /\ [][BeatNext]_vars

----------------------------------------------------------------------------
(* The tracker at rest after a single disturbance: the bass sequence       *)
(* leaves its resting level in one frame at most and then runs on without  *)
(* end, as the capture loop delivers frames for as long as it runs.        *)

RestFlatFrame == Frame(base)

RestSpikeFrame ==
    /\ spikes = 0
    /\ \E b \in BassValues \ {base} : Frame(b)

RestNext == RestFlatFrame \/ RestSpikeFrame
SpecRest == BeatInit /\ [][RestNext]_vars
SpecRestFair == SpecRest /\ WF_vars(RestFlatFrame)

----------------------------------------------------------------------------
(* The tracker with the pulse parameters set by the user before the first  *)
(* frame arrives: set_pulse_enabled and set_pulse_parameters store what    *)
(* they are given.                                                         *)

\* engine.set_pulse_enabled, engine.set_pulse_parameters
PulseSettings ==
    /\ frames = 0
    /\ applies < MaxApplies
    /\ applies' = applies + 1
    /\ enable_pulse' \in BOOLEAN
    /\ pulse_strength' \in StrengthValues
    /\ pulse_attack' \in RateValues
    /\ pulse_decay' \in RateValues
    /\ UNCHANGED <<bands, beat_history, prev_bass, is_beat, beat_cooldown,
                   current_pulse, target_pulse, driverVars, audioVars,
                   capVars, queue, uiVars, cycles, emitted, delivered,
                   late_reads>>

PulseFlatFrame ==
    /\ frames < PulseFrames
    /\ Frame(base)

PulseSpikeFrame ==
    /\ frames < PulseFrames
    /\ spikes < MaxSpikes
    /\ \E b \in BassValues \ {base} : Frame(b)

PulseNext == PulseSettings \/ PulseFlatFrame \/ PulseSpikeFrame
SpecPulse == BeatInit /\ [][PulseNext]_vars

----------------------------------------------------------------------------
(* The tracker with the pulse switched on or off between two frames, the   *)
(* other parameters at their constructor defaults.                         *)

\* engine.set_pulse_enabled(e)
SetPulseEnabled ==
    /\ applies < MaxApplies
    /\ applies' = applies + 1
    /\ \E e \in BOOLEAN : enable_pulse' = e
    /\ UNCHANGED <<bands, beat_history, prev_bass, is_beat, beat_cooldown,
                   current_pulse, target_pulse, pulse_strength, pulse_attack,
                   pulse_decay, driverVars, audioVars, capVars, queue,
                   uiVars, cycles, emitted, delivered, late_reads>>

ToggleNext == SetPulseEnabled \/ PulseFlatFrame \/ PulseSpikeFrame
SpecToggle == BeatInit /\ [][ToggleNext]_vars

----------------------------------------------------------------------------
(* C1  Pulse decay to rest: after a beat has raised target_pulse and no    *)
(* further beat occurs, the updates bring current_pulse back to exactly    *)
(* 1.0 and it stays there.  In SpecRestFair at most one beat occurs and    *)
(* the updates never stop, so the claim says current_pulse is eventually   *)
(* 1.0 for good.                                                           *)
C1_PulseReturnsToRest == <>[](current_pulse = One)

(* C2  Beat debounce: two updates that report a beat are at least          *)
(* CooldownFrames (10) updates apart.                                      *)
C2_BeatDebounce == beat_gap = 0 \/ beat_gap >= CooldownFrames

\* two beats exactly 10 updates apart
C2_Witness == beat_gap = CooldownFrames /\ is_beat

(* C3  Beat trigger: from the initial state, after N >= 10 frames at       *)
(* level v > 0 a frame at 1.6 v is reported as a beat on that frame.       *)
C3_SpikeFrame ==
    /\ base > 0
    /\ spikes = 1
    /\ frames >= 11
    /\ 10 * bands[1] = 16 * base
    /\ prev_bass = bands[1]

C3_BeatTrigger == C3_SpikeFrame => is_beat

\* the spike frame arrives on a full history and is reported
C3_Witness == C3_SpikeFrame /\ is_beat /\ Len(beat_history) = HistoryCap

----------------------------------------------------------------------------
(* The capture cycle is between line 54 and line 70 *)
Processing == cap_pc \in {"volume", "vol_sm1", "vol_sm2",
                          "fft_sm1", "fft_sm2", "fft_sens"}

SumSquares(s) == SumRange([i \in 1..Len(s) |-> s[i] * s[i]], 1, Len(s))

\* sqrt(mean of the true squares) / 32768 * sensitivity
TrueVolume(buf, sens) ==
    RoundDiv(Sqrt(RoundDiv(SumSquares(buf), Len(buf))) * sens, 100)

(* C4  RMS volume: the instantaneous volume fed into the smoothing step    *)
(* (rms_volume after line 54) is sqrt(mean of the true squares) / 32768    *)
(* times the sensitivity read on that line.                                *)
C4_TrueRms ==
    cap_pc = "vol_sm1" => rms_volume = TrueVolume(data, used.sens_vol)

(* C5  Smoothing state stays valid: after every capture cycle prev_volume  *)
(* and every element of prev_fft are finite.                               *)
C5_StoredStateFinite ==
    cap_pc = "check" =>
        /\ IsFinite(prev_volume)
        /\ \A i \in 1..Len(prev_fft) : IsFinite(prev_fft[i])

FrameFinite(f) ==
    /\ IsFinite(f.volume)
    /\ \A i \in 1..3 : IsFinite(f.bands[i])
    /\ \A i \in 1..Len(f.spectrum) : IsFinite(f.spectrum[i])

(* C6  Finiteness of output: every frame the capture loop emits has a      *)
(* finite volume, three finite band energies and a finite spectrum.        *)
C6_FramesFinite == \A i \in 1..Len(queue) : FrameFinite(queue[i])

\* a frame was emitted in a cycle whose volume is not a number
C6_Witness ==
    /\ cap_pc = "check"
    /\ queue # <<>>
    /\ queue[Len(queue)].n = emitted
    /\ queue[Len(queue)].raw = data
    /\ ~IsFinite(rms_volume)

(* C7  Parameter snapshot per cycle: within one capture cycle every read   *)
(* of sensitivity returns one value and every read of smoothing returns    *)
(* one value, for the volume and for the spectrum alike.                   *)
C7_SingleSnapshot ==
    (used.sens_vol # -1 /\ used.sens_fft # -1) =>
        /\ used.sens_vol = used.sens_fft
        /\ used.sm_vol1 = used.sm_vol2
        /\ used.sm_vol2 = used.sm_fft1
        /\ used.sm_fft1 = used.sm_fft2

(* C8  Cooperative shutdown: once stop() has cleared running the loop      *)
(* finishes at most the iteration in progress (one more read at most),     *)
(* the stream is open whenever it is read and closed only when the loop    *)
(* has ended, stop() returns only after the thread has finished, and       *)
(* stop() does return.                                                     *)
C8_ShutdownSafe ==
    /\ late_reads <= 1
    /\ (cap_pc = "read" \/ Processing) => stream = "open"
    /\ stream = "closed" => cap_pc = "done"
    /\ ui_pc = "closed" => (ThreadFinished(cap_pc) /\ stream # "open")

C8_CooperativeShutdown ==
    /\ []C8_ShutdownSafe
    /\ (ui_pc = "waiting") ~> (ui_pc = "closed")

\* stop() came during an iteration, which ended its read afterwards, and
\* has returned with the stream closed
C8_Witness == ui_pc = "closed" /\ late_reads = 1 /\ stream = "closed"

(* C9 as stated  Sequential ordering: the update for buffer n completes    *)
(* before the feature extraction of buffer n+1 begins, so while a buffer   *)
(* is being processed every frame emitted before has been updated.         *)
C9_UpdateBeforeNextIngest == Processing => delivered = emitted

(* C9 amended  The extraction of buffer n completes before the extraction *)
(* of buffer n+1 begins and before the update for buffer n begins, and the *)
(* updates run one frame at a time in the order of the buffers.            *)
C9_UpdatesInOrder ==
    [][/\ emitted' # emitted =>
             /\ emitted' = emitted + 1
             /\ Processing /\ ~Processing'
       /\ delivered' # delivered =>
             /\ delivered' = delivered + 1
             /\ delivered' <= emitted
             /\ queue # <<>>
             /\ Head(queue).n = delivered'
             /\ bands' = Head(queue).bands]_vars

\* frame 1 was updated while frame 2 had already been extracted
C9_Witness ==
    /\ delivered = 1
    /\ emitted = 2
    /\ Len(queue) = 1
    /\ bands = display.bands

(* C10 as stated  Lossy single-slot hand-off: at most one emitted frame    *)
(* is pending at any time.                                                 *)
C10_SingleSlot == Len(queue) <= 1

(* C10 amended  The hand-off is a first-in first-out queue: every emitted  *)
(* frame not yet processed is pending, in emission order, and none is      *)
(* dropped or overwritten.                                                 *)
C10_FifoHandOff ==
    /\ delivered + Len(queue) = emitted
    /\ \A i \in 1..Len(queue) : queue[i].n = delivered + i

\* two frames are pending
C10_Witness == Len(queue) = 2 /\ delivered = 0

----------------------------------------------------------------------------
\* the state the smoothing step keeps from cycle to cycle
SmoothingState == <<prev_fft, prev_volume>>

\* the state detect_beat and update_pulse keep from update to update
BeatState == <<beat_history, prev_bass, beat_cooldown, current_pulse,
               target_pulse>>

\* the step is taken by the capture thread / by the UI thread
CaptureThreadStep == cap_pc' # cap_pc
UiThreadStep == ui_pc' # ui_pc \/ delivered' # delivered \/ applies' # applies

(* C11 as stated  State ownership: the smoothing state and the beat state  *)
(* are touched only by steps of the thread that runs the capture loop.     *)
C11_CaptureThreadOwnsAll ==
    [][(SmoothingState' # SmoothingState \/ BeatState' # BeatState) =>
           (CaptureThreadStep /\ ~UiThreadStep)]_vars

(* C11 amended  Each of the two is touched by one thread only: the         *)
(* smoothing state by steps of the capture thread, the beat state by the   *)
(* UI thread while it runs process_audio for a posted frame; no step of    *)
(* one thread changes the state of the other.                              *)
C11_SingleThreadOwnership ==
    [][/\ SmoothingState' # SmoothingState =>
              (CaptureThreadStep /\ ~UiThreadStep)
       /\ BeatState' # BeatState =>
              (delivered' # delivered /\ ~CaptureThreadStep)]_vars

\* the capture thread has smoothed a volume and the UI thread has run the
\* tracker for every frame it was handed
C11_Witness ==
    /\ delivered >= 1
    /\ Len(beat_history) = delivered
    /\ prev_volume > 0

(* C12  Transient read error: when the device read raises, the loop goes   *)
(* on with its condition (and reads again while running is set), and from  *)
(* the failed read up to the processing of the next buffer prev_volume and *)
(* prev_fft stay as they were, so the next buffer is blended with them.    *)
C12_ReadErrorTransient ==
    [][/\ cap_pc \in {"check", "read", "except"} => UNCHANGED SmoothingState
       /\ cap_pc = "except" => cap_pc' \in {"except", "check"}
       /\ (cap_pc = "check" /\ running) => cap_pc' \in {"check", "read"}]_vars

\* a read has failed after an audible buffer was smoothed, and the loop
\* has another buffer to read
C12_Witness ==
    /\ cap_pc = "except"
    /\ running
    /\ prev_volume > 0
    /\ cycles < MaxCycles

----------------------------------------------------------------------------
\* the UI thread carries on as for a working capture: it handles events,
\* is inside apply_to_engine, or is closing the window
CarriesOn == ui_pc \in {"idle", "apply_smoothing", "waiting", "closed"}

(* C13  Device initialization failure: when the input device cannot be     *)
(* opened, no iteration of the capture loop has run, no frame has been     *)
(* emitted, and the thread that started the audio processor has been told, *)
(* so it does not carry on as for a working capture.                       *)
C13_OpenFailureReported ==
    cap_pc = "failed" =>
        /\ cycles = 0
        /\ emitted = 0
        /\ ~CarriesOn

----------------------------------------------------------------------------
(* C14  Beat state bounds: after every update beat_cooldown is in 0..10    *)
(* and beat_history holds at most 30 samples; each update puts the new     *)
(* bass energy at the end of the history, keeps the others in order and,   *)
(* when 30 were held, drops the oldest one.                                *)
C14_BeatStateBounded ==
    /\ [](/\ beat_cooldown \in 0..CooldownFrames
          /\ Len(beat_history) <= HistoryCap)
    /\ [][frames' # frames =>
             LET n == Len(beat_history)
                 m == Len(beat_history')
             IN /\ m = IF n < HistoryCap THEN n + 1 ELSE HistoryCap
                /\ beat_history'[m] = bands'[1]
                /\ \A i \in 1..(m - 1) :
                      beat_history'[i] = beat_history[i + n + 1 - m]]_vars

\* a beat on a full history, after samples have been evicted
C14_Witness ==
    /\ frames > HistoryCap
    /\ Len(beat_history) = HistoryCap
    /\ is_beat
    /\ beat_cooldown = CooldownFrames - 1
    /\ beat_history[HistoryCap] # beat_history[1]

(* C15  Pulse bounds: whatever strength >= 0 and attack and decay rates in *)
(* (0, 1] the engine is given, target_pulse and current_pulse lie in       *)
(* [1.0, 2.0] after every update.                                          *)
C15_PulseBounded ==
    /\ One <= target_pulse /\ target_pulse <= 2 * One
    /\ One <= current_pulse /\ current_pulse <= 2 * One

\* a beat whose target was cut down to 2.0, reached by the pulse in the
\* same update (attack rate 1.0)
C15_Witness ==
    /\ is_beat
    /\ pulse_strength = 200
    /\ target_pulse = 2 * One
    /\ current_pulse = 2 * One

(* C16  Rising-energy requirement: an update reports a beat only on a      *)
(* frame whose bass energy is strictly greater than that of the frame      *)
(* before it, and a constant bass sequence never produces a beat.          *)
C16_RisingRequired ==
    /\ [](spikes = 0 => ~is_beat)
    /\ [][(frames' # frames /\ is_beat') => bands'[1] > bands[1]]_vars

\* a frame above 1.5 times the average, with no cooldown running, that is
\* not reported because the frame before it was higher
C16_Witness ==
    /\ ~is_beat
    /\ since_beat = -1
    /\ Len(beat_history) > WarmUp
    /\ 2 * bands[1] * Len(beat_history) > 3 * SumSeq(beat_history)
    /\ beat_history[Len(beat_history) - 1] > bands[1]

----------------------------------------------------------------------------
\* the buffer of the cycle is all zero (len(data) > 0 and not np.any(data))
Silent == Len(data) > 0 /\ ~AnyNonZero(data)

\* the last frame emitted is the frame of the cycle just ended
CycleEmitted ==
    /\ cap_pc = "check"
    /\ queue # <<>>
    /\ queue[Len(queue)].n = emitted
    /\ queue[Len(queue)].raw = data

(* C17  Silent buffer holds volume: the frame emitted for an all-zero      *)
(* buffer carries prev_volume exactly as its volume.                       *)
C17_SilentHoldsVolume ==
    (CycleEmitted /\ Silent) => queue[Len(queue)].volume = prev_volume

(* C17, the rest of the claim: a cycle on an all-zero buffer leaves        *)
(* prev_volume as it was, and its smoothing step still replaces the        *)
(* spectrum: every bin becomes the old bin times the smoothing factor      *)
(* (zeros after a change of length).                                       *)
C17_SilentCycleSmooths ==
    [][(Processing /\ Silent) =>
          /\ prev_volume' = prev_volume
          /\ cap_pc' = "check" =>
                /\ Len(prev_fft') = Len(Rfft(data))
                /\ \A i \in 1..Len(prev_fft') :
                      prev_fft'[i] =
                          IF Len(prev_fft) = Len(prev_fft')
                          THEN RoundDiv(prev_fft[i] * used.sm_fft1, 100)
                          ELSE 0
                /\ emitted' = emitted + 1]_vars

----------------------------------------------------------------------------
(* C18  Shape-resize recovery: whatever the lengths of the buffers, every  *)
(* cycle on a non-empty buffer ends by emitting, after it prev_fft has     *)
(* floor(n/2)+1 elements for its n samples, and when prev_fft had another  *)
(* length the cycle blends with zeros in its place: the new elements are   *)
(* the transform times (1 - smoothing) times sensitivity.                  *)
C18_ResizeRecovers ==
    /\ []((cap_pc \in {"check", "read", "except"} /\ Len(data) > 0) =>
             Len(prev_fft) = (Len(data) \div 2) + 1)
    /\ [][(cap_pc = "fft_sens" /\ cap_pc' # cap_pc) =>
             /\ cap_pc' = "check"
             /\ emitted' = emitted + 1
             /\ Len(prev_fft) # (Len(data) \div 2) + 1 =>
                   \A i \in 1..Len(prev_fft') :
                       prev_fft'[i] =
                           RoundDiv(Rfft(data)[i] * (100 - used.sm_fft2)
                                        * sensitivity, 10000)]_vars

\* a cycle on two samples right after a cycle on the longer buffer, whose
\* spectrum was not zero
C18_Witness ==
    /\ CycleEmitted
    /\ Len(queue) >= 2
    /\ Len(data) = 2
    /\ Len(queue[Len(queue) - 1].raw) > Len(data)
    /\ queue[Len(queue) - 1].bands[1] > 0
    /\ Len(prev_fft) = 2

----------------------------------------------------------------------------
\* every frame emitted so far came from the same buffer, which is not
\* silent (SpecSteady keeps every frame in the queue and leaves the
\* settings alone once the stream is open)
SameBufferFed ==
    /\ queue # <<>>
    /\ AnyNonZero(queue[1].raw)
    /\ \A i \in 1..Len(queue) : queue[i].raw = queue[1].raw

\* element j of the emitted spectrum at its limit: bin j of the transform
\* times sensitivity
InstantBin(buf, j, sens) == RoundDiv(Rfft(buf)[j + 1] * sens, 100)

(* C19  Smoothing convergence: from the zero smoothing state, with the     *)
(* same non-zero buffer fed in every cycle and smoothing and sensitivity   *)
(* constant, the volume and every spectrum element of the emitted frames   *)
(* never decrease from one cycle to the next, never exceed the             *)
(* instantaneous value (true RMS, transform magnitude) times sensitivity,  *)
(* and equal it in every cycle when smoothing is 0.                        *)
C19_SmoothingConverges ==
    SameBufferFed =>
        LET buf == queue[1].raw
        IN /\ \A i \in 1..Len(queue) :
                 /\ queue[i].volume <= TrueVolume(buf, sensitivity)
                 /\ smoothing = 0 =>
                        queue[i].volume = TrueVolume(buf, sensitivity)
                 /\ \A j \in 1..Len(queue[i].spectrum) :
                        /\ queue[i].spectrum[j] <= InstantBin(buf, j, sensitivity)
                        /\ smoothing = 0 =>
                              queue[i].spectrum[j] = InstantBin(buf, j, sensitivity)
           /\ \A i \in 1..(Len(queue) - 1) :
                 /\ queue[i].volume <= queue[i + 1].volume
                 /\ \A j \in 1..Len(queue[i].spectrum) :
                        queue[i].spectrum[j] <= queue[i + 1].spectrum[j]

\* no square of a sample leaves the int16 range
SquaresFit(buf) == \A i \in 1..Len(buf) : buf[i] * buf[i] <= 32767

(* C19 for the buffers whose squares fit in an int16: the same statement   *)
(* holds of them.                                                          *)
C19_ConvergesWithoutOverflow ==
    (SameBufferFed /\ SquaresFit(queue[1].raw)) => C19_SmoothingConverges

----------------------------------------------------------------------------
\* the mean of bins lo..hi of a spectrum (bin k is element k + 1), as far
\* as the spectrum has them; 0 when it has none of them
BinMean(s, lo, hi) ==
    LET top == Min(hi, Len(s) - 1)
    IN IF top < lo THEN 0
       ELSE RoundDiv(SumRange(s, lo + 1, top + 1), top - lo + 1)

(* C20  Band energies: the bands of every emitted frame are the means of   *)
(* bins 1..19, 20..99 and 100..end of the smoothed spectrum of the cycle,  *)
(* a band without bins being 0; bin 0 is in no band and every other bin    *)
(* in exactly one.                                                         *)
C20_BandMeans ==
    CycleEmitted =>
        queue[Len(queue)].bands =
            << BinMean(prev_fft, 1, 19),
               BinMean(prev_fft, 20, 99),
               BinMean(prev_fft, 100, Len(prev_fft) - 1) >>

\* a frame of the longer buffer: the three bands have bins and differ
C20_Witness ==
    /\ CycleEmitted
    /\ Len(prev_fft) > MidEdge
    /\ queue[Len(queue)].bands[1] > 0
    /\ queue[Len(queue)].bands[1] < queue[Len(queue)].bands[2]
    /\ queue[Len(queue)].bands[2] < queue[Len(queue)].bands[3]

----------------------------------------------------------------------------
(* C21  Spectrum slice: the spectrum of an emitted frame whose transform   *)
(* has L bins has min(99, L - 1) elements, and they are bins 1, 2, ... of  *)
(* the smoothed spectrum in order; bin 0 is not among them.                *)
C21_SpectrumSlice ==
    CycleEmitted =>
        LET sp == queue[Len(queue)].spectrum
        IN /\ Len(sp) = Min(99, Len(prev_fft) - 1)
           /\ \A j \in 1..Len(sp) : sp[j] = prev_fft[j + 1]

\* a frame of a transform with more than 100 bins, whose bins differ
C21_Witness ==
    /\ CycleEmitted
    /\ Len(prev_fft) > MidEdge
    /\ Len(queue[Len(queue)].spectrum) = 99
    /\ queue[Len(queue)].spectrum[1] > 0
    /\ queue[Len(queue)].spectrum[1] < queue[Len(queue)].spectrum[2]

----------------------------------------------------------------------------
\* every element of s is 0
AllZero(s) == \A i \in 1..Len(s) : s[i] = 0

(* C22  Zero-input scenario: while every buffer is a full chunk of zeros,  *)
(* every emitted frame has a spectrum of 99 zeros, bands 0, 0, 0 and       *)
(* volume 0, no update reports a beat and current_pulse stays 1.0.         *)
C22_ZeroInput ==
    /\ \A i \in 1..Len(queue) :
          /\ Len(queue[i].spectrum) = 99
          /\ AllZero(queue[i].spectrum)
          /\ queue[i].bands = <<0, 0, 0>>
          /\ queue[i].volume = 0
    /\ AllZero(display.spectrum)
    /\ display.bands = <<0, 0, 0>>
    /\ display.volume = 0
    /\ AllZero(beat_history)
    /\ ~is_beat
    /\ current_pulse = One

\* chunks of zeros were processed and their frames updated the engine
\* past the warm-up of the beat test
C22_Witness ==
    /\ delivered > WarmUp
    /\ Len(beat_history) = delivered
    /\ Len(prev_fft) = (ChunkSize \div 2) + 1
    /\ Len(display.spectrum) = 99

----------------------------------------------------------------------------
\* the array objects a frame hands to the consumer
FrameStorage(f) == {f.ids.spectrum, f.ids.bands, f.ids.raw}

(* C23  No aliasing between frames: the spectrum, bands and raw-audio      *)
(* arrays of an emitted frame are not the arrays prev_fft or fft_data      *)
(* refer to, then or after any later cycle, and no two frames hand over    *)
(* the same array.                                                         *)
C23_NoAliasing ==
    /\ \A i \in 1..Len(queue) :
          FrameStorage(queue[i]) \cap {storage.fft, storage.prev} = {}
    /\ \A i \in 1..Len(queue) : \A j \in 1..Len(queue) :
          i < j => FrameStorage(queue[i]) \cap FrameStorage(queue[j]) = {}

\* two frames are held while a third cycle has replaced the arrays of the
\* processor
C23_Witness ==
    /\ Len(queue) >= 2
    /\ cycles = 3
    /\ cap_pc = "check"
    /\ queue[1].ids.raw # storage.raw
    /\ storage.fft = Allocated(73, 3)

----------------------------------------------------------------------------
(* C24  Warm-up: from an empty history none of the first 5 updates         *)
(* reports a beat, whatever the bass energies; the 6th is the earliest     *)
(* that can.                                                               *)
C24_WarmUp == frames <= 5 => ~is_beat

\* the 6th update reports a beat
C24_Witness == frames = 6 /\ is_beat /\ Len(beat_history) = 6

----------------------------------------------------------------------------
(* C25  Re-arm after cooldown: 9 updates after a reported beat the         *)
(* cooldown is 0 again, so the 10th update after the beat reports a beat   *)
(* when its bass exceeds 1.5 times the rolling average and the bass of     *)
(* the frame before it; the 9 updates in between report none.              *)
C25_ReArm ==
    /\ [](since_beat = CooldownFrames - 1 => beat_cooldown = 0)
    /\ [][(/\ frames' # frames
           /\ since_beat = CooldownFrames - 1
           /\ AboveAverage(bands'[1], beat_history')
           /\ Rising(bands'[1], prev_bass)) => is_beat']_vars
    /\ [][(/\ frames' # frames
           /\ since_beat >= 0
           /\ since_beat < CooldownFrames - 1) => ~is_beat']_vars

\* a second beat reported on the 10th update after the first one
C25_Witness ==
    /\ is_beat
    /\ beat_gap = CooldownFrames
    /\ since_beat = 0
    /\ beat_cooldown = CooldownFrames - 1
    /\ frames >= WarmUp + 1 + CooldownFrames

----------------------------------------------------------------------------
(* C26  Snap to rest: after every update with pulse enabled current_pulse  *)
(* is exactly 1.0 or at least 0.05 away from 1.0, and an update that       *)
(* leaves current_pulse at 1.0 leaves target_pulse at 1.0 as well.         *)
C26_SnapToRest ==
    (enable_pulse /\ frames > 0) =>
        \/ current_pulse = One /\ target_pulse = One
        \/ Abs(current_pulse - One) >= SnapBand

\* a beat at half strength whose first attack step stays inside the band:
\* the same update snaps the pulse and takes the target back
C26_Witness ==
    /\ enable_pulse
    /\ is_beat
    /\ pulse_strength = 50
    /\ pulse_attack = 10
    /\ current_pulse = One
    /\ target_pulse = One

----------------------------------------------------------------------------
(* C27  prev_bass tracking: after every update prev_bass is the bass       *)
(* energy of the frame just processed, with or without a beat, a running   *)
(* cooldown, or a history of more than 5 samples.                          *)
C27_PrevBassTracks == frames > 0 => prev_bass = bands[1]

\* a frame off the resting level that arrives while the cooldown of an
\* earlier beat runs, and is not reported
C27_Witness ==
    /\ beat_cooldown > 0
    /\ ~is_beat
    /\ since_beat > 0
    /\ bands[1] # base
    /\ prev_bass = bands[1]

----------------------------------------------------------------------------
(* C28  A beat always shows in the pulse: with pulse enabled and the       *)
(* default parameters (strength 1.0, attack 0.1, decay 0.2) every update   *)
(* that reports a beat leaves current_pulse strictly above 1.0.            *)
C28_BeatShows ==
    (/\ is_beat
     /\ enable_pulse
     /\ pulse_strength = 100
     /\ pulse_attack = 10
     /\ pulse_decay = 20) => current_pulse > One

\* a beat barely above 1.5 times the average: the first attack step from
\* rest lands just outside the 0.05 band
C28_Witness ==
    /\ is_beat
    /\ enable_pulse
    /\ pulse_strength = 100
    /\ pulse_attack = 10
    /\ target_pulse < One + (6 * One) \div 10
    /\ current_pulse >= One + SnapBand
    /\ current_pulse < One + SnapBand + SnapBand \div 10

----------------------------------------------------------------------------
(* C29  Pulse disabled: while enable_pulse is false every update leaves    *)
(* current_pulse at 1.0 and target_pulse as it was (a beat sets no         *)
(* target), and is_beat, beat_cooldown, beat_history and prev_bass come    *)
(* out as they would with pulse enabled on the same bass.                  *)
C29_PulseDisabled ==
    [][(frames' # frames /\ ~enable_pulse) =>
          LET on == DetectBeat(bands'[1], beat_history, prev_bass,
                               beat_cooldown, is_beat, target_pulse, TRUE,
                               pulse_strength)
          IN /\ current_pulse' = One
             /\ target_pulse' = target_pulse
             /\ is_beat' = on.is_beat
             /\ beat_cooldown' = on.cooldown
             /\ beat_history' = on.history
             /\ prev_bass' = on.prev]_vars

\* a beat reported with the pulse switched off in the middle of an earlier
\* pulse: the pulse is back at 1.0 and the target is still the earlier one
C29_Witness ==
    /\ ~enable_pulse
    /\ is_beat
    /\ beat_gap >= CooldownFrames
    /\ current_pulse = One
    /\ target_pulse > One

----------------------------------------------------------------------------
(* C30  No division by zero in the pulse target: for non-negative bass     *)
(* energies, whenever an update reports a beat the rolling average of the  *)
(* history is strictly positive and the ratio bass / avg_bass that sets    *)
(* the pulse target is greater than 1.5.                                   *)
C30_RatioDefined ==
    is_beat =>
        /\ SumSeq(beat_history) > 0
        /\ BassRatio(bands[1], beat_history) > (3 * One) \div 2

\* a beat out of silence: the sample just appended is the only non-zero
\* one of the history
C30_Witness ==
    /\ is_beat
    /\ base = 0
    /\ Len(beat_history) > WarmUp
    /\ SumSeq(beat_history) = bands[1]
    /\ BassRatio(bands[1], beat_history) = One * Len(beat_history)

====
